---- MODULE Spec2Model ----
(***************************************************************************)
(* A model of streamlit_app.py: the Bedrock-agent chat page.               *)
(*                                                                         *)
(*   - initialize_aws_client : three ordered credential sources            *)
(*   - get_agent_config      : agent id / alias id from secrets or env     *)
(*   - process_response      : first chunk of the response event stream    *)
(*   - generate_response     : one remote call, exceptions turned to text  *)
(*   - the script itself     : one run per widget event over session_state *)
(*                                                                         *)
(* Python values are modelled as records.  A str is                        *)
(*   [lit, cps, exc]  =  the ASCII text lit, followed by the characters    *)
(*   whose code points are cps, followed by str(exc) when exc is an        *)
(*   exception.  The cross mark U+274C that starts the error messages of   *)
(*   the source is written "(x)" here (a module is ASCII).                 *)
(***************************************************************************)
EXTENDS Naturals, Sequences, FiniteSets, TLC

VARIABLES
    session_id,          \* st.session_state.session_id (a token, here a number)
    messages,            \* st.session_state.messages
    client_initialized,  \* st.session_state.client_initialized
    client,              \* st.session_state.client
    next_uuid,           \* the next value uuid.uuid4() produces
    run,                 \* what the last script run did (observation)
    replies,             \* the chat submissions since the history was last emptied
    pc,                  \* function-level specifications: "call" or "done"
    inp,                 \* function-level specifications: the argument
    out                  \* function-level specifications: the outcome

vars == <<session_id, messages, client_initialized, client, next_uuid, run,
          replies, pc, inp, out>>

sessionVars == <<session_id, messages, client_initialized, client, next_uuid,
                 run, replies>>

callVars == <<pc, inp, out>>

-----------------------------------------------------------------------------
(* Bounds of the model.                                                    *)

MaxBytes == 2      \* longest payload of a chunk, in bytes
MaxEvents == 2     \* longest response stream, in events
MaxTurns == 2      \* chat submissions kept in one history
MaxSessions == 2   \* "New Session" clicks in one behaviour

-----------------------------------------------------------------------------
(* Python values.                                                          *)

NoExc == [type |-> "none"]

Str(lit, cps, exc) == [lit |-> lit, cps |-> cps, exc |-> exc]

Literal(lit) == Str(lit, <<>>, NoExc)

\* bool(s) of a str: the empty string is falsy.
Truthy(s) == ~(s.lit = "" /\ s.cps = <<>> /\ s.exc = NoExc)

\* The bytes a chunk may carry: "H", and the two bytes of U+00E9, each of which
\* is ill-formed on its own.
Bytes == {72, 195, 169}

RECURSIVE SeqsUpTo(_, _)
SeqsUpTo(S, n) ==
    IF n = 0 THEN {<<>>}
    ELSE LET shorter == SeqsUpTo(S, n - 1)
         IN  shorter \cup {Append(s, x) : s \in shorter, x \in S}

IsCont(b, lo, hi) == b >= lo /\ b <= hi

\* bytes.decode('utf8'), strict: [ok, text], text the code points decoded.
RECURSIVE DecodeFrom(_, _, _)
DecodeFrom(bs, i, acc) ==
    IF i > Len(bs) THEN [ok |-> TRUE, text |-> acc]
    ELSE
      LET b == bs[i]
          n == Len(bs) - i
          bad == [ok |-> FALSE, text |-> <<>>]
      IN
      IF b < 128 THEN DecodeFrom(bs, i + 1, Append(acc, b))
      ELSE IF b >= 194 /\ b <= 223 THEN
          IF n >= 1 /\ IsCont(bs[i + 1], 128, 191)
          THEN DecodeFrom(bs, i + 2,
                          Append(acc, (b - 192) * 64 + (bs[i + 1] - 128)))
          ELSE bad
      ELSE IF b >= 224 /\ b <= 239 THEN
          LET lo == IF b = 224 THEN 160 ELSE 128
              hi == IF b = 237 THEN 159 ELSE 191
          IN  IF n >= 2 /\ IsCont(bs[i + 1], lo, hi) /\ IsCont(bs[i + 2], 128, 191)
              THEN DecodeFrom(bs, i + 3,
                              Append(acc, (b - 224) * 4096 + (bs[i + 1] - 128) * 64
                                          + (bs[i + 2] - 128)))
              ELSE bad
      ELSE IF b >= 240 /\ b <= 244 THEN
          LET lo == IF b = 240 THEN 144 ELSE 128
              hi == IF b = 244 THEN 143 ELSE 191
          IN  IF n >= 3 /\ IsCont(bs[i + 1], lo, hi) /\ IsCont(bs[i + 2], 128, 191)
                 /\ IsCont(bs[i + 3], 128, 191)
              THEN DecodeFrom(bs, i + 4,
                              Append(acc, (b - 240) * 262144 + (bs[i + 1] - 128) * 4096
                                          + (bs[i + 2] - 128) * 64 + (bs[i + 3] - 128)))
              ELSE bad
      ELSE bad

\* A variant that reads every byte as one character (latin-1).
decode_latin1(bs) == [ok |-> TRUE, text |-> bs]

decode(bs) == DecodeFrom(bs, 1, <<>>)

-----------------------------------------------------------------------------
(* Exceptions.                                                             *)

\* ClientError(error_response, operation): e.response['Error'] is a dict that
\* may lack 'Code' or 'Message'.
ErrorDict(hasCode, code, hasMessage, message) ==
    [hasCode |-> hasCode, Code |-> code, hasMessage |-> hasMessage, Message |-> message]

ClientError(err) == [type |-> "ClientError", Error |-> err]

NoCredentialsError == [type |-> "NoCredentialsError"]

RuntimeError(msg) == [type |-> "RuntimeError", msg |-> msg]

KeyError(key) == [type |-> "KeyError", key |-> key]

UnicodeDecodeError(bs) == [type |-> "UnicodeDecodeError", object |-> bs]

\* Exception(msg, arg): args = (msg, arg).
Exception(msg, arg) == [type |-> "Exception", msg |-> msg, arg |-> arg]

-----------------------------------------------------------------------------
(* The response of invoke_agent: resp['completion'] is an event stream.    *)
(* An event is a dict; 'chunk' in event tells a chunk event from any other *)
(* (a trace event here), and a chunk holds its payload under 'bytes'.      *)

ChunkEvent(bs) == [kind |-> "chunk", hasBytes |-> TRUE, bytes |-> bs]

ChunkNoBytes == [kind |-> "chunk", hasBytes |-> FALSE, bytes |-> <<>>]

TraceEvent == [kind |-> "trace", hasBytes |-> FALSE, bytes |-> <<>>]

Events == {ChunkEvent(bs) : bs \in SeqsUpTo(Bytes, MaxBytes)}
            \cup {ChunkNoBytes, TraceEvent}

\* What the iterator raises when it fails instead of ending (an error event of
\* the service, which botocore raises as a ClientError).
StreamFailure ==
    ClientError(ErrorDict(TRUE, "AccessDeniedException", TRUE, "stream denied"))

\* A stream: its events in delivery order, and how iteration ends after them.
Streams == [events : SeqsUpTo(Events, MaxEvents), tail : {"end", "error"}]

Stream(events) == [events |-> events, tail |-> "end"]

\* Outcomes of a call: a value returned, None returned, or an exception raised.
\* consumed counts the events taken from the stream.
Returned(s, k) == [kind |-> "return", val |-> s, exc |-> NoExc, consumed |-> k]

ReturnedNone(k) == [kind |-> "none", val |-> Literal(""), exc |-> NoExc, consumed |-> k]

Raised(e, k) == [kind |-> "raise", val |-> Literal(""), exc |-> e, consumed |-> k]

\* The body of the for loop for the event at position i (lines 83-88).
LoopBody(ev, i) ==
    IF ev.kind = "chunk"
    THEN IF ~ev.hasBytes THEN Raised(KeyError("bytes"), i)
         ELSE LET d == decode(ev.bytes)
              IN  IF d.ok THEN Returned(Str("", d.text, NoExc), i)
                  ELSE Raised(UnicodeDecodeError(ev.bytes), i)
    ELSE Raised(Exception("unexpected event.", ev), i)

\* for event in event_stream (line 82): every path of the body leaves the loop,
\* so only the first event is ever taken.
Iterate(stream) ==
    IF stream.events = <<>>
    THEN IF stream.tail = "end" THEN ReturnedNone(0) ELSE Raised(StreamFailure, 0)
    ELSE LoopBody(stream.events[1], 1)

\* A variant that skips events without a chunk and goes on to the next one.
RECURSIVE IterateSkipping(_, _)
IterateSkipping(stream, i) ==
    IF i > Len(stream.events)
    THEN IF stream.tail = "end" THEN ReturnedNone(i - 1) ELSE Raised(StreamFailure, i - 1)
    ELSE IF stream.events[i].kind = "chunk" THEN LoopBody(stream.events[i], i)
         ELSE IterateSkipping(stream, i + 1)

\* except Exception as e: raise Exception("unexpected event.", e)  (lines 89-90)
Rewrap(o) ==
    IF o.kind = "raise" THEN Raised(Exception("unexpected event.", o.exc), o.consumed)
    ELSE o

process_response_skipping(resp) == Rewrap(IterateSkipping(resp, 1))

process_response(resp) == Rewrap(Iterate(resp))

-----------------------------------------------------------------------------
(* generate_response (lines 92-120).  remote is what the service does for   *)
(* this call: client.invoke_agent raises exc, or returns a response whose   *)
(* 'completion' is stream.  stop is where Streamlit ends the run because    *)
(* another widget event is pending: at no point ("none"), when st.spinner   *)
(* is entered ("enter", before the remote call) or when it is left ("exit", *)
(* after the body).  Streamlit ends a run by raising its rerun exception,   *)
(* which is no Exception: no except clause of the source catches it.        *)

Codes == {"AccessDeniedException", "ResourceNotFoundException", "ThrottlingException"}

ErrorDicts ==
    {ErrorDict(TRUE, c, TRUE, "Rate exceeded") : c \in Codes}
      \cup {ErrorDict(TRUE, c, FALSE, "") : c \in Codes}
      \cup {ErrorDict(FALSE, "", TRUE, "Rate exceeded"), ErrorDict(FALSE, "", FALSE, "")}

CallFailures ==
    {ClientError(d) : d \in ErrorDicts} \cup {NoCredentialsError, RuntimeError("boom")}

RemoteRaises(e) == [kind |-> "raise", exc |-> e, stream |-> Stream(<<>>)]

RemoteStreams(s) == [kind |-> "stream", exc |-> NoExc, stream |-> s]

Remotes == {RemoteRaises(e) : e \in CallFailures} \cup {RemoteStreams(s) : s \in Streams}

AccessDeniedText == Literal("(x) Access denied. Check your AWS permissions for Bedrock.")

AgentNotFoundText == Literal("(x) Agent not found. Check your Agent ID and Alias ID.")

AwsErrorText(message) == Literal("(x) AWS Error: " \o message)

NoCredentialsText == Literal("(x) AWS credentials not found. Please configure credentials.")

UnexpectedErrorText(e) == Str("(x) Unexpected error: ", <<>>, e)

NoResponseText == Literal("No response received")

\* except ClientError as e (lines 107-114): the two subscripts raise KeyError
\* out of the handler when the error dict lacks the key.
HandleClientError(e, k) ==
    IF ~e.Error.hasCode THEN Raised(KeyError("Code"), k)
    ELSE IF e.Error.Code = "AccessDeniedException" THEN Returned(AccessDeniedText, k)
    ELSE IF e.Error.Code = "ResourceNotFoundException" THEN Returned(AgentNotFoundText, k)
    ELSE IF ~e.Error.hasMessage THEN Raised(KeyError("Message"), k)
    ELSE Returned(AwsErrorText(e.Error.Message), k)

\* The except clauses in their order (lines 107-120).
HandleException(e, k) ==
    IF e.type = "ClientError" THEN HandleClientError(e, k)
    ELSE IF e.type = "NoCredentialsError" THEN Returned(NoCredentialsText, k)
    ELSE Returned(UnexpectedErrorText(e), k)

SpinnerStops == {"none", "enter", "exit"}

\* The run ended by Streamlit's rerun exception, k events taken from the stream.
Rerun(k) == [kind |-> "rerun", val |-> Literal(""), exc |-> NoExc, consumed |-> k]

\* The body of the with block (lines 96-105) as it leaves the block: a value
\* returned or an exception raised.
SpinnerBody(remote) ==
    IF remote.kind = "raise" THEN Raised(remote.exc, 0)
    ELSE LET r == process_response(remote.stream)
         IN  IF r.kind = "raise" THEN r
             ELSE IF r.kind = "return" /\ Truthy(r.val) THEN Returned(r.val, r.consumed)
             ELSE Returned(NoResponseText, r.consumed)

generate_response(remote, stop) ==
    IF stop = "enter" THEN Rerun(0)
    ELSE LET b == SpinnerBody(remote)
         IN  IF stop = "exit" THEN Rerun(b.consumed)
             ELSE IF b.kind = "raise" THEN HandleException(b.exc, b.consumed)
             ELSE b

-----------------------------------------------------------------------------
(* initialize_aws_client (lines 16-60).  The argument is what the three    *)
(* sources hold when it is called:                                         *)
(*   secrets : "unavailable" (reading st.secrets raises), "nokey" (no      *)
(*             AWS_ACCESS_KEY_ID), "nosecret" (the key id without          *)
(*             AWS_SECRET_ACCESS_KEY), "full"                              *)
(*   envKey  : os.getenv('AWS_ACCESS_KEY_ID') is None, '' or a key id      *)
(*   ctor1..3: whether boto3.client(...) returns (TRUE) or raises, for the *)
(*             call each method makes                                      *)
(*   ambient : whether the default credential chain (IAM role,             *)
(*             ~/.aws/credentials) holds valid credentials                 *)
(*   probeOp : whether the client boto3 built has a list_agents operation. *)
(*             The installed boto3 decides and the repository pins none:   *)
(*             in the service models as released, list_agents belongs to   *)
(*             bedrock-agent and a bedrock-agent-runtime client has no     *)
(*             such attribute (FALSE).                                     *)

NoClient == "None"

CredEnvs ==
    [secrets : {"unavailable", "nokey", "nosecret", "full"},
     envKey : {"unset", "empty", "set"},
     ctor1 : BOOLEAN, ctor2 : BOOLEAN, ctor3 : BOOLEAN, ambient : BOOLEAN,
     probeOp : BOOLEAN]

\* Each method ends "returned" (a client), "skipped" (its if was false) or
\* "failed" (an exception, caught by the method's except clause).

\* Method 1, lines 18-32.
SecretsMethod(cred) ==
    IF cred.secrets = "unavailable" THEN "failed"
    ELSE IF cred.secrets = "nokey" THEN "skipped"
    ELSE IF cred.secrets = "nosecret" THEN "failed"
    ELSE IF cred.ctor1 THEN "returned" ELSE "failed"

\* Method 2, lines 34-48: os.getenv(...) is falsy when unset or empty.
EnvMethod(cred) ==
    IF cred.envKey # "set" THEN "skipped"
    ELSE IF cred.ctor2 THEN "returned" ELSE "failed"

\* Method 3, lines 50-60: boto3.client raises, or it returns a client and
\* line 54 calls list_agents on it.  The call raises AttributeError when the
\* client has no such operation, whatever the credentials are; where it has
\* one, the call returns when the default credentials are valid.
DefaultMethod(cred) ==
    IF cred.ctor3 /\ cred.probeOp /\ cred.ambient THEN "returned" ELSE "failed"

\* Where Streamlit may end the call for a pending widget event: at no point,
\* or at the Streamlit call a method makes when it returned (st.success,
\* lines 28, 44, 55) or failed (st.warning, st.error, lines 32, 48, 59); a
\* skipped method makes none.
ResolveStops == {"none", "secrets", "env", "default"}

Resolved(c, tried) == [kind |-> "return", client |-> c, attempted |-> tried]

\* The call ended by Streamlit's rerun exception, which no except clause of
\* the function catches: nothing is returned.
Interrupted(tried) == [kind |-> "rerun", client |-> NoClient, attempted |-> tried]

initialize_aws_client(cred, stop) ==
    IF SecretsMethod(cred) # "skipped" /\ stop = "secrets"
    THEN Interrupted(<<"secrets">>)
    ELSE IF SecretsMethod(cred) = "returned"
    THEN Resolved("client:secrets", <<"secrets">>)
    ELSE IF EnvMethod(cred) # "skipped" /\ stop = "env"
    THEN Interrupted(<<"secrets", "env">>)
    ELSE IF EnvMethod(cred) = "returned"
    THEN Resolved("client:env", <<"secrets", "env">>)
    ELSE IF stop = "default"
    THEN Interrupted(<<"secrets", "env", "default">>)
    ELSE IF DefaultMethod(cred) = "returned"
    THEN Resolved("client:default", <<"secrets", "env", "default">>)
    ELSE Resolved(NoClient, <<"secrets", "env", "default">>)

-----------------------------------------------------------------------------
(* get_agent_config (lines 62-76).  A configuration value is None or a     *)
(* string; a key missing from st.secrets raises, an unset environment      *)
(* variable reads as None.                                                 *)

None == [some |-> FALSE, v |-> ""]

Some(v) == [some |-> TRUE, v |-> v]

\* bool(x) of an optional string.
TruthyOpt(x) == x.some /\ x.v # ""

\* What the configuration sources hold, in each source the two keys.  None in
\* st.secrets: the subscript raises (the key is missing, or there is no secret
\* store to read); None in the environment: the variable is unset.
AgentEnvs ==
    [secretId : {None, Some(""), Some("AGENT1")},
     secretAlias : {None, Some("ALIAS1")},
     envId : {None, Some("AGENT2")},
     envAlias : {None, Some("ALIAS2")}]

get_agent_config(cfg) ==
    IF cfg.secretId.some /\ cfg.secretAlias.some
    THEN <<cfg.secretId, cfg.secretAlias>>
    ELSE <<cfg.envId, cfg.envAlias>>

-----------------------------------------------------------------------------
(* Session state after the script's first run (lines 122-133).             *)

Idle == [kind |-> "idle"]

\* What a script run did: the widget event that started it, whether it called
\* initialize_aws_client (and what that returned), the agent configuration it
\* read, whether it called generate_response (with which prompt and service
\* behaviour, how often client.invoke_agent was called, and to what outcome),
\* and where Streamlit ended it for a pending widget event.
NoRun ==
    [event |-> "load", resolved |-> FALSE, resolution |-> Resolved(NoClient, <<>>),
     agent_id |-> None, agent_alias_id |-> None,
     invoked |-> FALSE, calls |-> 0, stopped |-> "none", prompt |-> "",
     remote |-> RemoteStreams(Stream(<<>>)), response |-> Idle]

RunOf(event) == [NoRun EXCEPT !.event = event]

SessionInit ==
    /\ session_id = 0
    /\ next_uuid = 1
    /\ messages = <<>>
    /\ client_initialized = FALSE
    /\ client = NoClient
    /\ run = NoRun
    /\ replies = <<>>

-----------------------------------------------------------------------------
(* process_response applied to every stream within the bounds.             *)

InitExtract == SessionInit /\ pc = "call" /\ inp \in Streams /\ out = Idle

Extract ==
    /\ pc = "call"
    /\ pc' = "done"
    /\ out' = process_response(inp)
    /\ UNCHANGED <<inp, sessionVars>>

SpecExtract == InitExtract /\ [][Extract]_vars

(* generate_response applied to every behaviour of the service.            *)

InitInvoke ==
    /\ SessionInit
    /\ pc = "call"
    /\ inp \in [remote : Remotes, stop : SpinnerStops]
    /\ out = Idle

Invoke ==
    /\ pc = "call"
    /\ pc' = "done"
    /\ out' = generate_response(inp.remote, inp.stop)
    /\ UNCHANGED <<inp, sessionVars>>

SpecInvoke == InitInvoke /\ [][Invoke]_vars

-----------------------------------------------------------------------------
(* The script (lines 122-281): every widget event starts one run of it     *)
(* over st.session_state.  A button exists only where the script evaluates *)
(* st.button for it; st.rerun() ends the run, and the run that follows     *)
(* has no event and changes nothing.  Streamlit also ends a run, by        *)
(* raising its rerun exception, when another widget event is pending at a  *)
(* Streamlit call or at an access to st.session_state: a handler that      *)
(* writes twice can be ended between its writes.  A run ended before its   *)
(* first write changes nothing and is a stuttering step; so is a run ended *)
(* inside initialize_aws_client, which returns nothing to write.           *)

Prompts == {"Hello", "Bye"}

\* The behaviours of the service the session is run against: one chunk, an
\* empty stream, an event without a chunk, a service error with its code, a
\* service error without one.
SessionRemotes ==
    {RemoteStreams(Stream(<<ChunkEvent(<<72>>)>>)),
     RemoteStreams(Stream(<<>>)),
     RemoteStreams(Stream(<<TraceEvent>>)),
     RemoteRaises(ClientError(ErrorDict(TRUE, "AccessDeniedException", TRUE, "Rate exceeded"))),
     RemoteRaises(ClientError(ErrorDict(FALSE, "", TRUE, "Rate exceeded")))}

UserMessage(prompt) == [role |-> "user", content |-> Literal(prompt)]

AssistantMessage(text) == [role |-> "assistant", content |-> text]

\* Where Streamlit may end the run of "New Session" once session_id is
\* written (line 148): at no point, or at the write of messages (line 149).
NewSessionStops == {"none", "messages"}

\* "New Session" (lines 147-150).
NewSession ==
    /\ next_uuid <= MaxSessions
    /\ session_id' = next_uuid
    /\ next_uuid' = next_uuid + 1
    /\ \E stop \in NewSessionStops :
         /\ IF stop = "none"
            THEN messages' = <<>> /\ replies' = <<>>
            ELSE UNCHANGED <<messages, replies>>
         /\ run' = [RunOf("new_session") EXCEPT !.stopped = stop]
    /\ UNCHANGED <<client_initialized, client, callVars>>

\* "Initialize AWS Client" (lines 155-159): offered while not initialized.
InitializeOffered == ~client_initialized

\* Where Streamlit may end the run of "Initialize AWS Client" once client is
\* written (line 157): at no point, or at the write of client_initialized
\* (line 158).
InitializeStops == {"none", "client_initialized"}

InitializeClient ==
    /\ InitializeOffered
    /\ \E cred \in CredEnvs, stop \in InitializeStops :
         LET r == initialize_aws_client(cred, "none")
         IN  /\ client' = r.client
             /\ client_initialized' = (stop = "none")
             /\ run' = [RunOf("initialize") EXCEPT
                          !.resolved = TRUE, !.resolution = r, !.stopped = stop]
    /\ UNCHANGED <<session_id, next_uuid, messages, replies, callVars>>

\* A variant that offers the retry in every initialized session.
RetryOffered_whenever_initialized == client_initialized

\* "Retry Connection" (lines 160-167): offered when initialized without a
\* client; it writes once (line 166).
RetryOffered == client_initialized /\ client = NoClient

RetryConnection ==
    /\ RetryOffered
    /\ \E cred \in CredEnvs :
         LET r == initialize_aws_client(cred, "none")
         IN  /\ client' = r.client
             /\ run' = [RunOf("retry") EXCEPT !.resolved = TRUE, !.resolution = r]
    /\ UNCHANGED <<session_id, next_uuid, messages, replies, client_initialized, callVars>>

\* "Clear Chat" (lines 181-184): it writes once (line 183).
ClearChat ==
    /\ messages' = <<>>
    /\ replies' = <<>>
    /\ run' = RunOf("clear_chat")
    /\ UNCHANGED <<session_id, next_uuid, client_initialized, client, callVars>>

\* A variant of the guards that lets a session without a client through.
ChatSurfaceReached_without_client_check(ids) ==
    client_initialized /\ TruthyOpt(ids[1]) /\ TruthyOpt(ids[2])

\* The three guards before the chat surface (lines 192-232): each st.stop()
\* ends the run before st.chat_input is reached.
ChatSurfaceReached(ids) ==
    /\ client_initialized
    /\ client # NoClient
    /\ TruthyOpt(ids[1]) /\ TruthyOpt(ids[2])

\* Where Streamlit may end the run of the chat input handler for a pending
\* widget event once the user message is appended: at no point, at
\* st.chat_message("user").write (line 246, "write"; the reads of
\* st.session_state at lines 250 and 254 leave the same state), in
\* generate_response as st.spinner is entered or left, or, after
\* generate_response returned, at the read of st.session_state.messages
\* (line 258, "append").
HandlerStops == {"write", "append"} \cup SpinnerStops

\* What the chat input handler (lines 243-260) appends in a run ended at stop
\* for an outcome r of the lines 246-255: the user message is appended before
\* them (line 245), the assistant message at line 258; an exception, or a
\* rerun, ends the run before it.
Appended(prompt, r, stop) ==
    IF r.kind \in {"raise", "rerun"} \/ stop = "append" THEN <<UserMessage(prompt)>>
    ELSE <<UserMessage(prompt), AssistantMessage(r.val)>>

\* client.invoke_agent calls of a handler run ended at stop.
RemoteCalls(stop) == IF stop \in {"write", "enter"} THEN 0 ELSE 1

\* A chat submission: st.chat_input exists, and yields the prompt, only in a
\* run that reads the agent configuration and passes the three guards.
ChatSubmit ==
    /\ Len(replies) < MaxTurns
    /\ \E cfg \in AgentEnvs :
         LET ids == get_agent_config(cfg)
         IN  /\ ChatSurfaceReached(ids)
             /\ \E prompt \in Prompts, remote \in SessionRemotes, stop \in HandlerStops :
                  LET r == IF stop = "write" THEN Rerun(0)
                           ELSE IF stop = "append" THEN generate_response(remote, "none")
                           ELSE generate_response(remote, stop)
                  IN  /\ stop = "append" => r.kind = "return"
                      /\ messages' = messages \o Appended(prompt, r, stop)
                      /\ replies' = Append(replies, [prompt |-> prompt, response |-> r])
                      /\ run' = [RunOf("chat") EXCEPT
                                   !.agent_id = ids[1], !.agent_alias_id = ids[2],
                                   !.invoked = (stop # "write"),
                                   !.calls = RemoteCalls(stop), !.stopped = stop,
                                   !.prompt = prompt, !.remote = remote, !.response = r]
    /\ UNCHANGED <<session_id, next_uuid, client_initialized, client, callVars>>

Init == SessionInit /\ pc = "session" /\ inp = Idle /\ out = Idle

Next ==
    \/ NewSession
    \/ InitializeClient
    \/ RetryConnection
    \/ ClearChat
    \/ ChatSubmit

Spec == Init /\ [][Next]_vars

(* initialize_aws_client applied to every state of the three sources.      *)

InitResolve ==
    /\ SessionInit
    /\ pc = "call"
    /\ inp \in [cred : CredEnvs, stop : ResolveStops]
    /\ out = Idle

Resolve ==
    /\ pc = "call"
    /\ pc' = "done"
    /\ out' = initialize_aws_client(inp.cred, inp.stop)
    /\ UNCHANGED <<inp, sessionVars>>

SpecResolve == InitResolve /\ [][Resolve]_vars

-----------------------------------------------------------------------------
(* Reference notions the properties are stated with.                       *)

\* The UTF-8 encoding of one scalar value (RFC 3629); surrogates and values
\* above U+10FFFF have none.
Utf8EncodeOne(c) ==
    IF c < 128 THEN <<c>>
    ELSE IF c < 2048 THEN <<192 + (c \div 64), 128 + (c % 64)>>
    ELSE IF c < 65536
         THEN <<224 + (c \div 4096), 128 + ((c \div 64) % 64), 128 + (c % 64)>>
    ELSE <<240 + (c \div 262144), 128 + ((c \div 4096) % 64),
           128 + ((c \div 64) % 64), 128 + (c % 64)>>

RECURSIVE Utf8Encode(_)
Utf8Encode(cps) ==
    IF cps = <<>> THEN <<>>
    ELSE Utf8EncodeOne(Head(cps)) \o Utf8Encode(Tail(cps))

\* The scalar values whose encoding is written with the bytes of Bytes alone
\* (Bytes holds no lead byte of a three- or four-byte form).
Scalars ==
    {c \in 0..2047 : \A k \in 1..Len(Utf8EncodeOne(c)) : Utf8EncodeOne(c)[k] \in Bytes}

\* bs is the UTF-8 encoding of some text.
WellFormed(bs) == \E t \in SeqsUpTo(Scalars, Len(bs)) : Utf8Encode(t) = bs

IsPrefix(s, t) == Len(s) <= Len(t) /\ \A k \in 1..Len(s) : s[k] = t[k]

Uninitialized == ~client_initialized /\ client = NoClient

ClientReady == client_initialized /\ client # NoClient

ClientFailed == client_initialized /\ client = NoClient

FirstIsChunk(stream) ==
    /\ stream.events # <<>>
    /\ stream.events[1].kind = "chunk"
    /\ stream.events[1].hasBytes

-----------------------------------------------------------------------------
\* The message the documentation gives for a failure of the remote call.
DocumentedText(e) ==
    IF e.type = "ClientError"
    THEN IF e.Error.hasCode /\ e.Error.Code = "AccessDeniedException" THEN AccessDeniedText
         ELSE IF e.Error.hasCode /\ e.Error.Code = "ResourceNotFoundException"
              THEN AgentNotFoundText
         ELSE AwsErrorText(e.Error.Message)
    ELSE IF e.type = "NoCredentialsError" THEN NoCredentialsText
    ELSE UnexpectedErrorText(e)

(* C1, as claimed: generate_response never raises; for every failure of the *)
(* remote call (access denied, agent not found, any other service error,    *)
(* with or without a Code or Message in its error record, missing           *)
(* credentials, any other exception) and every failure of process_response  *)
(* it returns the documented message of the category.                       *)
(* Violated: a ClientError whose error record lacks 'Code', or has another  *)
(* code and lacks 'Message', raises KeyError out of the except clause.      *)
CE_C1_NeverRaises ==
    (pc = "done" /\ inp.stop = "none") =>
        /\ out.kind = "return"
        /\ inp.remote.kind = "raise" => out.val = DocumentedText(inp.remote.exc)
        /\ (inp.remote.kind = "stream" /\ process_response(inp.remote.stream).kind = "raise")
              => out.val = UnexpectedErrorText(process_response(inp.remote.stream).exc)

(* C2, as claimed: for every stream whose first event carries a chunk,      *)
(* process_response returns the UTF-8 decoding of the chunk's bytes and     *)
(* takes one event only.  Violated: bytes that are not well-formed UTF-8    *)
(* have no decoding, and process_response raises.                           *)
CE_C2_FirstChunkAlwaysReturned ==
    (pc = "done" /\ FirstIsChunk(inp)) =>
        /\ out.kind = "return"
        /\ Utf8Encode(out.val.cps) = inp.events[1].bytes
        /\ out.consumed = 1

(* C2, amended: for every stream whose first event carries a chunk, exactly *)
(* one event is taken and the outcome is that of the stream cut to its      *)
(* first event; when the chunk's bytes are well-formed UTF-8 the outcome is *)
(* the text whose UTF-8 encoding is those bytes, returned; when they are    *)
(* not, the outcome is the "unexpected event." error, raised.               *)
Thm_C2_FirstChunkDecoded ==
    (pc = "done" /\ FirstIsChunk(inp)) =>
        LET first == inp.events[1]
        IN  /\ out.consumed = 1
            /\ out = process_response(Stream(<<first>>))
            /\ IF WellFormed(first.bytes)
               THEN /\ out.kind = "return"
                    /\ out.val.lit = "" /\ out.val.exc = NoExc
                    /\ Utf8Encode(out.val.cps) = first.bytes
               ELSE /\ out.kind = "raise"
                    /\ out.exc.type = "Exception"
                    /\ out.exc.msg = "unexpected event."

\* A two-byte character decoded from the first chunk, a second chunk behind it.
Wit_C2_FirstChunkDecoded ==
    /\ pc = "done"
    /\ inp = Stream(<<ChunkEvent(<<195, 169>>), ChunkEvent(<<72>>)>>)
    /\ out = Returned(Str("", <<233>>, NoExc), 1)

\* The "unexpected event." error e carries the event ev.
Carries(e, ev) ==
    /\ e.type = "Exception"
    /\ e.msg = "unexpected event."
    /\ \/ e.arg = ev
       \/ /\ "arg" \in DOMAIN e.arg
          /\ e.arg.arg = ev

(* C3: for every stream whose first event has no chunk, process_response    *)
(* raises the "unexpected event." error, the error carries that event (as   *)
(* its argument or as the argument of the error it wraps), no text is       *)
(* returned and no later event is taken.                                    *)
Thm_C3_UnexpectedEvent ==
    (pc = "done" /\ inp.events # <<>> /\ inp.events[1].kind # "chunk") =>
        /\ out.kind = "raise"
        /\ Carries(out.exc, inp.events[1])
        /\ out.consumed = 1

\* An event without a chunk first, a chunk behind it: the error, not the chunk.
Wit_C3_UnexpectedEvent ==
    /\ pc = "done"
    /\ inp = Stream(<<TraceEvent, ChunkEvent(<<72>>)>>)
    /\ out.kind = "raise"
    /\ out.exc = Exception("unexpected event.", Exception("unexpected event.", TraceEvent))

(* C4, as claimed: when client.invoke_agent returned an empty response    *)
(* stream, process_response returns None without raising, generate_response *)
(* returns "No response received", and that text is the assistant reply     *)
(* appended to the history.  Violated: Streamlit ends the run for a pending *)
(* widget event as st.spinner is left (nothing is returned) or at line 258  *)
(* (the text is returned and not appended).                                 *)
CE_C4_EmptyStream ==
    (run.calls = 1 /\ run.remote = RemoteStreams(Stream(<<>>))) =>
        /\ process_response(run.remote.stream) = ReturnedNone(0)
        /\ run.response = Returned(NoResponseText, 0)
        /\ Len(messages) >= 2
        /\ messages[Len(messages) - 1] = UserMessage(run.prompt)
        /\ messages[Len(messages)] = AssistantMessage(NoResponseText)

\* The three sources in their order, and when each succeeds: the secret
\* store and the environment when they hold the keys and the client is
\* built, the default credentials when the client is built and they are
\* valid (what the probe call is there to find out).
Sources == <<"secrets", "env", "default">>

Succeeds(cred, k) ==
    IF k = 1 THEN cred.secrets = "full" /\ cred.ctor1
    ELSE IF k = 2 THEN cred.envKey = "set" /\ cred.ctor2
    ELSE cred.ctor3 /\ cred.ambient

ClientOf(k) == IF k = 1 THEN "client:secrets" ELSE IF k = 2 THEN "client:env" ELSE "client:default"

(* C5, as claimed: initialize_aws_client tries secret store, environment,   *)
(* default credentials in this order; a source is tried only when every     *)
(* earlier one was absent or failed, the result is the client of the first  *)
(* source that succeeds, no source after it is tried, and the result is     *)
(* None exactly when no source succeeds.  Violated: on a client without a   *)
(* list_agents operation the probe of the third source raises whatever the  *)
(* credentials are, so valid default credentials give None; and a call that *)
(* Streamlit ends at st.success, st.warning or st.error returns nothing and *)
(* tries no later source.                                                   *)
CE_C5_FirstSourceWins ==
    pc = "done" =>
        LET good == {k \in 1..3 : Succeeds(inp.cred, k)}
        IN  /\ out.kind = "return"
            /\ (out.client = NoClient) <=> (good = {})
            /\ good = {} => out.attempted = Sources
            /\ \A k \in good :
                 (\A j \in good : k <= j) =>
                     /\ out.client = ClientOf(k)
                     /\ out.attempted = SubSeq(Sources, 1, k)

(* C6, as claimed: the history always has even length, alternates user and  *)
(* assistant starting with user, and its entries 2k-1 and 2k hold the k-th  *)
(* prompt and the text returned for it.  Violated: when generate_response   *)
(* raises (C1), or Streamlit ends the run for a pending widget event before *)
(* line 258 appends, the run ends with the user message and no reply.       *)
CE_C6_HistoryAlternates ==
    /\ Len(messages) = 2 * Len(replies)
    /\ \A k \in 1..Len(replies) :
         /\ 2 * k <= Len(messages)
         /\ messages[2 * k - 1] = UserMessage(replies[k].prompt)
         /\ messages[2 * k].role = "assistant"
         /\ messages[2 * k].content = replies[k].response.val
    /\ \A k \in 1..Len(messages) - 1 : messages[k].role # messages[k + 1].role

(* C7: generate_response is called, client.invoke_agent is called, and the  *)
(* history grows, only in a step taken from ClientReady by a chat run that  *)
(* read both agent_id and agent_alias_id; no step taken in Uninitialized or *)
(* ClientFailed calls either or appends a message.                          *)
Thm_C7_InvokeOnlyWhenReady ==
    [][(run'.invoked \/ run'.calls > 0 \/ Len(messages') > Len(messages)) =>
          /\ ClientReady
          /\ TruthyOpt(run'.agent_id) /\ TruthyOpt(run'.agent_alias_id)
          /\ run'.event = "chat"]_vars

\* With a client built from the environment credentials and both agent ids
\* read, a submission called the agent once and both messages were appended.
Wit_C7_InvokeOnlyWhenReady ==
    /\ run.event = "chat"
    /\ run.invoked /\ run.calls = 1
    /\ ClientReady
    /\ client = "client:env"
    /\ TruthyOpt(run.agent_id) /\ TruthyOpt(run.agent_alias_id)
    /\ Len(messages) = 2

(* C8, as claimed: "new session" and "retry", taken from ClientReady, run   *)
(* credential resolution again.  Violated: "New Session" only replaces the  *)
(* session id and empties the history.                                      *)
CE_C8_NewSessionResolves ==
    [][(ClientReady /\ run'.event \in {"new_session", "retry"}) => run'.resolved]_vars

(* C8, amended: ClientReady is terminal.  Every step from ClientReady (chat *)
(* submission, clear chat, new session) leaves the session ClientReady with *)
(* the same client and runs no credential resolution; "retry" is offered in *)
(* ClientFailed only and "initialize" only while client_initialized is      *)
(* false.                                                                   *)
Thm_C8_ReadyIsTerminal ==
    [][ClientReady =>
          /\ ClientReady'
          /\ client' = client
          /\ ~run'.resolved
          /\ run'.event \in {"chat", "clear_chat", "new_session"}]_vars

\* A new session taken in ClientReady: still ClientReady, nothing resolved.
Wit_C8_ReadyIsTerminal ==
    /\ ClientReady
    /\ run.event = "new_session"
    /\ ~run.resolved
    /\ session_id # 0

(* C9, as claimed: "initialize" is taken from Uninitialized and "retry"     *)
(* from ClientFailed; either leads to ClientReady, holding the client       *)
(* initialize_aws_client returned, when it returned one, and to             *)
(* ClientFailed when it returned None; no step leads back to Uninitialized, *)
(* and a client is present only in an initialized session.  Violated: a run *)
(* of "initialize" that Streamlit ends at the write of line 158 leaves the  *)
(* client written and client_initialized false.                             *)
CE_C9_StateFollowsResolve ==
    [][/\ run'.event = "initialize" => Uninitialized
       /\ run'.event = "retry" => ClientFailed
       /\ run'.event \in {"initialize", "retry"} =>
            /\ run'.resolved
            /\ client' = run'.resolution.client
            /\ IF run'.resolution.client # NoClient THEN ClientReady' ELSE ClientFailed'
       /\ ~Uninitialized => ~Uninitialized'
       /\ Uninitialized' \/ ClientReady' \/ ClientFailed']_vars

(* C10, as claimed: a step changes messages only by appending at its end    *)
(* (a chat submission) or by replacing it with the empty sequence (clear    *)
(* chat, new session); session_id changes in a new-session step only, and   *)
(* there the history is emptied with it; clear chat empties the history and *)
(* leaves session_id, client and client_initialized as they are.  Violated: *)
(* a run of "new session" that Streamlit ends at the write of line 149      *)
(* takes the new session_id and keeps the history.                          *)
CE_C10_AppendOrReset ==
    [][/\ messages' # messages =>
            \/ IsPrefix(messages, messages') /\ run'.event = "chat"
            \/ messages' = <<>> /\ run'.event \in {"clear_chat", "new_session"}
       /\ session_id' # session_id => run'.event = "new_session"
       /\ run'.event = "new_session" => session_id' # session_id /\ messages' = <<>>
       /\ run'.event = "clear_chat" =>
            /\ messages' = <<>>
            /\ session_id' = session_id
            /\ client' = client
            /\ client_initialized' = client_initialized]_vars

====
